---------------------------- MODULE Spec2Model ----------------------------
(***************************************************************************)
(* Model of gameness/views.py: the memory game's start endpoint            *)
(* (ContestView.get_context_data) and play endpoint (ContestGameView.post) *)
(* over the Game and Turn tables and the per-browser HTTP sessions.        *)
(*                                                                         *)
(* Every request is one atomic step (spec section 5: requests are handled  *)
(* one at a time).  gameness/models.py is not part of the sources; the     *)
(* model methods the views call (get_card_id, match, update_turn,          *)
(* calculate_score, end_game, set_finished, stop_active_games_for_player,  *)
(* generate_play_field, is_game_suspected) are modelled from spec.md.      *)
(***************************************************************************)
EXTENDS Integers, Sequences, FiniteSets, TLC

VARIABLES
    games,          \* Game table: sequence of rows, the row's index is its pk
    turns,          \* Turn table: function from pk to row
    session,        \* session store: session id -> dictionary (function on its keys)
    response,       \* the response to the last request
    suspect_calls,  \* history: game pk -> number of SuspectedGame.is_game_suspected calls
    end_game_calls, \* history: game pk -> number of game.end_game calls
    matched_rounds, \* history: game pk -> number of rounds resolved with a match
    click_log,      \* history: game pk -> clicks accepted and rounds resolved
    inflight        \* session id -> the player of its start request in progress, or "none"

vars == <<games, turns, session, response, suspect_calls, end_game_calls, matched_rounds,
          click_log, inflight>>

---------------------------------------------------------------------------
(* Bounds of the model *)

\* games created in a run of Spec
MaxGames == 2
\* Turn rows written in a run of Spec
MaxTurns == 3
\* games created in a run of SpecRace
RaceGames == 3
\* Turn rows written in a run of SpecRace
RaceTurns == 1
\* games created in a run of SpecLong
LongGames == 2
\* Turn rows written in a run of SpecLong
LongTurns == 12

Sessions == {"s1", "s2"}

\* settings.USER_EMAILS, the pool the start endpoint draws the player from
USER_EMAILS == {"p1", "p2"}

---------------------------------------------------------------------------
(* Program constants *)

\* "2x3".split("x"): rows and columns of the grid
ROWS == 2
COLS == 3
\* the factor of game_id in a session's first turn pk
TurnPkFactor == 10

Cells == (0 .. ROWS - 1) \X (0 .. COLS - 1)

\* A playfield Game.generate_play_field can return: every card id is on
\* exactly two cells.
Layout1 == << <<1, 1, 2>>, <<2, 3, 3>> >>
Layouts == {Layout1}

\* The clicks the model's clients send: a round is opened on the top left
\* cell and closed on a cell of the first row (the same cell, the cell of the
\* same card, a cell of another card).
FirstCells == {<<0, 0>>}
SecondCells == {<<0, 0>>, <<0, 1>>, <<0, 2>>}
\* The second clicks of SpecLong: the same cell, a cell of another card.
LongSecondCells == {<<0, 0>>, <<0, 2>>}
\* Click payloads the handler cannot read: no "click" in the POST data, a
\* string that is not JSON.
BadClicks == {"missing", "not json"}

---------------------------------------------------------------------------
(* Dictionaries: a session and a JSON response are functions on their keys *)

EmptyDict == [k \in {} |-> 0]

Has(d, k) == k \in DOMAIN d

Put(d, k, v) == [x \in (DOMAIN d) \cup {k} |-> IF x = k THEN v ELSE d[x]]

Pop(d, k) == [x \in (DOMAIN d) \ {k} |-> d[x]]

Update(d, e) == [x \in (DOMAIN d) \cup (DOMAIN e) |-> IF x \in DOMAIN e THEN e[x] ELSE d[x]]

---------------------------------------------------------------------------
(* gameness.models, modelled from spec.md *)

\* Game.get_card_id: the card id on the clicked cell
get_card_id(game, c) == game.playfield[c[1] + 1][c[2] + 1]

ClickEntry(game, c) == [row |-> c[1], column |-> c[2], card |-> get_card_id(game, c)]

\* Game.match: <<the two clicks with their cards, whether the card ids agree>>
match(game, c1, c2) ==
    << <<ClickEntry(game, c1), ClickEntry(game, c2)>>,
       get_card_id(game, c1) = get_card_id(game, c2) >>

\* Game.update_turn(flag, click)
update_turn(game, flag, click) == [game EXCEPT !.open_turn = flag, !.hold_card = click]

\* game.turns: the pks of the Turn rows whose game is gid
game_turns(T, gid) == {pk \in DOMAIN T : T[pk].game = gid}

\* game.turns.filter(is_match=True)
game_matches(T, gid) == {pk \in game_turns(T, gid) : T[pk].is_match}

\* Game.calculate_score: matches against total turns (the elapsed-time weight
\* is left out: the model has no clock)
calculate_score(T, gid) ==
    (100 * Cardinality(game_matches(T, gid))) \div Cardinality(game_turns(T, gid))

\* Game.end_game(score, time)
end_game(game, score) == [game EXCEPT !.score = score]

\* Game.set_finished: finished and inactive
set_finished(game) == [game EXCEPT !.finished = TRUE, !.active = FALSE]

\* Game.objects.stop_active_games_for_player
stop_active_games_for_player(G, player) ==
    [i \in DOMAIN G |-> IF G[i].player = player /\ G[i].active
                        THEN [G[i] EXCEPT !.active = FALSE]
                        ELSE G[i]]

\* the row Game.objects.create(player, active=True, finished=False, playfield) inserts
NewGame(player, layout) ==
    [player |-> player, active |-> TRUE, finished |-> FALSE, playfield |-> layout,
     open_turn |-> FALSE, hold_card |-> <<>>, score |-> 0]

---------------------------------------------------------------------------
(* gameness/views.py *)

Init ==
    /\ games = <<>>
    /\ turns = EmptyDict
    /\ session = [s \in Sessions |-> EmptyDict]
    /\ response = [view |-> "none", session |-> "none", status |-> 0, body |-> EmptyDict]
    /\ suspect_calls = <<>>
    /\ end_game_calls = <<>>
    /\ matched_rounds = <<>>
    /\ click_log = <<>>
    /\ inflight = [s \in Sessions |-> "none"]

\* game_completed(game): the matched turns against the pairs of the playfield
\* (matches == rows * columns / 2 in true division)
game_completed(T, gid, game) ==
    2 * Cardinality(game_matches(T, gid)) = Len(game.playfield) * Len(game.playfield[1])

\* "game" in request.session
HasGame(sess) == Has(sess, "game")

\* mutant of GameFound: the lookup without active=True
GameFoundInactive(G, sess) ==
    /\ sess["game"] \in DOMAIN G
    /\ G[sess["game"]].player = sess["player"]
    /\ ~G[sess["game"]].finished

\* Game.objects.get(pk=game_id, player=player, active=True, finished=False) finds a row
GameFound(G, sess) ==
    /\ sess["game"] \in DOMAIN G
    /\ G[sess["game"]].player = sess["player"]
    /\ G[sess["game"]].active
    /\ ~G[sess["game"]].finished

\* request.session.get('turn', game_id*10 + 1)
TurnPk(sess, game_id) ==
    IF Has(sess, "turn") THEN sess["turn"] ELSE game_id * TurnPkFactor + 1

\* turn.save() of a Turn built with an explicit pk: the row with that pk is
\* updated when there is one, inserted otherwise
SaveTurn(T, pk, row) == Put(T, pk, row)

\* mutant of OpenedTurn: the pending click is not recorded
OpenedTurnNotSaved(game, c) == game

\* game.update_turn(True, request.POST["click"]) of the first click
OpenedTurn(game, c) == update_turn(game, TRUE, c)

\* mutant of ClosedTurn: the pending click is not cleared
ClosedTurnStaysOpen(game) == game

\* game.update_turn(False, "{}") after the second click
ClosedTurn(game) == update_turn(game, FALSE, <<>>)

\* mutant of GameAfterRound: the score is computed after every round
GameAfterRoundScoresAlways(T, gid, game) ==
    IF game_completed(T, gid, game)
    THEN set_finished(end_game(game, calculate_score(T, gid)))
    ELSE end_game(game, calculate_score(T, gid))

\* the game after the round: closed when game_completed
GameAfterRound(T, gid, game) ==
    IF game_completed(T, gid, game)
    THEN set_finished(end_game(game, calculate_score(T, gid)))
    ELSE game

\* mutant of SessionAfterRound: "game" stays in the session on completion
SessionAfterRoundKeepsGame(sess, pk, completed) == Put(sess, "turn", pk + 1)

\* the session after the round: the turn counter, and "game" popped on completion
SessionAfterRound(sess, pk, completed) ==
    IF completed THEN Pop(Put(sess, "turn", pk + 1), "game") ELSE Put(sess, "turn", pk + 1)

\* mutant of RoundContext: the response reports a match for every round
RoundContextMatchAlways(the_click, completed, score) ==
    Update([success |-> TRUE, csrf_token |-> "token",
            click |-> the_click[1], match |-> TRUE],
           IF completed THEN [completed |-> TRUE, score |-> score] ELSE EmptyDict)

\* the JSON of a second click
RoundContext(the_click, completed, score) ==
    Update([success |-> TRUE, csrf_token |-> "token",
            click |-> the_click[1], match |-> the_click[2]],
           IF completed THEN [completed |-> TRUE, score |-> score] ELSE EmptyDict)

Bump(f, i) == [f EXCEPT ![i] = @ + 1]

Respond(s, view, status, body) ==
    response' = [view |-> view, session |-> s, status |-> status, body |-> body]

\* mutant of PlayNoGame: the missing game id is reported as a missing game
PlayNoGame404(s) ==
    /\ ~HasGame(session[s])
    /\ Respond(s, "play", 404, [success |-> FALSE, msg |-> "No active game session found."])
    /\ UNCHANGED <<games, turns, session, suspect_calls, end_game_calls, matched_rounds>>

\* post: no game id in the session
PlayNoGame(s) ==
    /\ ~HasGame(session[s])
    /\ Respond(s, "play", 500, [success |-> FALSE])
    /\ UNCHANGED <<games, turns, session, suspect_calls, end_game_calls, matched_rounds>>

\* mutant of PlayNotFound: the stale game id is dropped from the session
PlayNotFoundPopsGame(s) ==
    /\ HasGame(session[s])
    /\ ~GameFound(games, session[s])
    /\ Respond(s, "play", 404, [success |-> FALSE, msg |-> "No active game session found."])
    /\ session' = [session EXCEPT ![s] = Pop(@, "game")]
    /\ UNCHANGED <<games, turns, suspect_calls, end_game_calls, matched_rounds>>

\* post: Game.DoesNotExist
PlayNotFound(s) ==
    /\ HasGame(session[s])
    /\ ~GameFound(games, session[s])
    /\ Respond(s, "play", 404, [success |-> FALSE, msg |-> "No active game session found."])
    /\ UNCHANGED <<games, turns, session, suspect_calls, end_game_calls, matched_rounds>>

\* post: the first click of a round
PlayFirstClick(s, c) ==
    /\ HasGame(session[s])
    /\ GameFound(games, session[s])
    /\ LET gid == session[s]["game"]
           game == games[gid]
       IN /\ ~game.open_turn
          /\ games' = [games EXCEPT ![gid] = OpenedTurn(game, c)]
          /\ Respond(s, "play", 200, [success |-> TRUE, click |-> <<ClickEntry(game, c)>>])
    /\ UNCHANGED <<turns, session, suspect_calls, end_game_calls, matched_rounds>>

\* post: the second click of a round
PlaySecondClick(s, c) ==
    /\ HasGame(session[s])
    /\ GameFound(games, session[s])
    /\ LET gid == session[s]["game"]
           game == games[gid]
           the_click == match(game, game.hold_card, c)
           pk == TurnPk(session[s], gid)
           T == SaveTurn(turns, pk, [game |-> gid, meta |-> the_click[1], is_match |-> the_click[2]])
           closed == ClosedTurn(game)
           completed == game_completed(T, gid, closed)
           after == GameAfterRound(T, gid, closed)
       IN /\ game.open_turn
          /\ turns' = T
          /\ session' = [session EXCEPT ![s] = SessionAfterRound(@, pk, completed)]
          /\ games' = [games EXCEPT ![gid] = after]
          /\ end_game_calls' = IF completed THEN Bump(end_game_calls, gid) ELSE end_game_calls
          /\ suspect_calls' = IF completed THEN Bump(suspect_calls, gid) ELSE suspect_calls
          /\ matched_rounds' = IF the_click[2] THEN Bump(matched_rounds, gid) ELSE matched_rounds
          /\ Respond(s, "play", 200, RoundContext(the_click, completed, after.score))

\* ContestGameView.post
Play(s, c) ==
    \/ PlayNoGame(s)
    \/ PlayNotFound(s)
    \/ PlayFirstClick(s, c)
    \/ PlaySecondClick(s, c)

\* mutant of StartGames: the player's active games are not stopped
StartGamesNoStop(G, player, layout) == Append(G, NewGame(player, layout))

\* the Game table after stop_active_games_for_player and Game.objects.create
StartGames(G, player, layout) ==
    Append(stop_active_games_for_player(G, player), NewGame(player, layout))

\* mutant of StartSession: a player already in the session is kept
StartSessionKeepsPlayer(sess, player, gid) ==
    Put(Pop(Pop(Put(IF Has(sess, "player") THEN sess ELSE Put(sess, "player", player),
                    "game_id", "uuid"), "game"), "click"),
        "game", gid)

\* the session after get_context_data: player and game_id set, "game" and
\* "click" popped, "game" bound to the new row
StartSession(sess, player, gid) ==
    Put(Pop(Pop(Put(Put(sess, "player", player), "game_id", "uuid"), "game"), "click"),
        "game", gid)

\* get_game_context: Game.objects.filter(player, score__gt=0.0) has rows
HasHighScore(G, player) == \E i \in DOMAIN G : G[i].player = player /\ G[i].score > 0

\* the game configuration of get_game_context
GameData == [success |-> TRUE, name |-> "Memory", best_score |-> 0, rows |-> ROWS, cols |-> COLS]

\* ContestView.get_context_data.  With a positive score among the player's
\* games, high_score_game.score is an attribute lookup on a QuerySet and
\* raises: the rows are written (no rollback), the response is a 500 and the
\* session middleware does not save the session of a 500 response.
Start(s, player, layout) ==
    /\ games' = StartGames(games, player, layout)
    /\ suspect_calls' = Append(suspect_calls, 0)
    /\ end_game_calls' = Append(end_game_calls, 0)
    /\ matched_rounds' = Append(matched_rounds, 0)
    /\ UNCHANGED turns
    /\ IF HasHighScore(games', player)
       THEN /\ UNCHANGED session
            /\ Respond(s, "start", 500, EmptyDict)
       ELSE /\ session' = [session EXCEPT ![s] = StartSession(@, player, Len(games'))]
            /\ Respond(s, "start", 200, [player |-> player, game_data |-> GameData])

\* a play request that would write a Turn row
IsSecondClick(s) ==
    /\ HasGame(session[s])
    /\ GameFound(games, session[s])
    /\ games[session[s]["game"]].open_turn

\* mutant of PlayMalformed: the turn is closed before the click is parsed
PlayMalformedClosesTurn(s, raw) ==
    /\ raw \in BadClicks
    /\ HasGame(session[s])
    /\ GameFound(games, session[s])
    /\ Respond(s, "play", 500, EmptyDict)
    /\ games' = [games EXCEPT ![session[s]["game"]] = ClosedTurn(@)]
    /\ UNCHANGED <<turns, session, suspect_calls, end_game_calls, matched_rounds>>

\* post with a click payload that request.POST["click"] or json.loads
\* rejects: the exception leaves the handler on line 86 (first click) or on
\* line 95 (second click), before any save, and the response is a 500
PlayMalformed(s, raw) ==
    /\ raw \in BadClicks
    /\ HasGame(session[s])
    /\ GameFound(games, session[s])
    /\ Respond(s, "play", 500, EmptyDict)
    /\ UNCHANGED <<games, turns, session, suspect_calls, end_game_calls, matched_rounds>>

\* get_context_data up to stop_active_games_for_player: the player is drawn
\* and the player's active games are stopped (the session is written with the
\* response)
StartStop(s, player) ==
    /\ inflight[s] = "none"
    /\ inflight' = [inflight EXCEPT ![s] = player]
    /\ games' = stop_active_games_for_player(games, player)
    /\ UNCHANGED <<turns, session, response, suspect_calls, end_game_calls, matched_rounds,
                   click_log>>

\* get_context_data from Game.objects.create on
StartCreate(s, layout) ==
    /\ inflight[s] # "none"
    /\ inflight' = [inflight EXCEPT ![s] = "none"]
    /\ games' = Append(games, NewGame(inflight[s], layout))
    /\ suspect_calls' = Append(suspect_calls, 0)
    /\ end_game_calls' = Append(end_game_calls, 0)
    /\ matched_rounds' = Append(matched_rounds, 0)
    /\ click_log' = Append(click_log, [accepted |-> 0, resolved |-> 0])
    /\ UNCHANGED turns
    /\ IF HasHighScore(games', inflight[s])
       THEN /\ UNCHANGED session
            /\ Respond(s, "start", 500, EmptyDict)
       ELSE /\ session' = [session EXCEPT ![s] = StartSession(@, inflight[s], Len(games'))]
            /\ Respond(s, "start", 200, [player |-> inflight[s], game_data |-> GameData])

\* history of a start request handled in one step
StartLogged ==
    /\ click_log' = Append(click_log, [accepted |-> 0, resolved |-> 0])
    /\ UNCHANGED inflight

\* history of a play request of session s: a click is accepted when it is
\* answered 200, and resolves a round when it is handled as a second click
PlayLogged(s) ==
    /\ click_log' =
          IF response'.status = 200
          THEN [click_log EXCEPT ![session[s]["game"]] =
                   [accepted |-> @.accepted + 1,
                    resolved |-> @.resolved + (IF IsSecondClick(s) THEN 1 ELSE 0)]]
          ELSE click_log
    /\ UNCHANGED inflight

Next ==
    \/ \E s \in Sessions, p \in USER_EMAILS, l \in Layouts :
          Len(games) < MaxGames /\ Start(s, p, l) /\ StartLogged
    \/ \E s \in Sessions, c \in FirstCells :
          ~IsSecondClick(s) /\ Play(s, c) /\ PlayLogged(s)
    \/ \E s \in Sessions, c \in SecondCells :
          IsSecondClick(s) /\ Cardinality(DOMAIN turns) < MaxTurns /\ Play(s, c) /\ PlayLogged(s)

Spec == Init /\ [][Next]_vars

\* Long sessions: fewer kinds of click, more rounds, and a browser loads the
\* start page only while its session holds no game.  Sessions and players are
\* interchangeable, so the first game is the one of s1 drawing p1.
NextLong ==
    \/ \E s \in Sessions, p \in USER_EMAILS, l \in Layouts :
          /\ Len(games) < LongGames /\ ~HasGame(session[s])
          /\ (Len(games) = 0 => (s = "s1" /\ p = "p1"))
          /\ Start(s, p, l) /\ StartLogged
    \/ \E s \in Sessions, c \in FirstCells :
          ~IsSecondClick(s) /\ Play(s, c) /\ PlayLogged(s)
    \/ \E s \in Sessions, c \in LongSecondCells :
          IsSecondClick(s) /\ Cardinality(DOMAIN turns) < LongTurns /\ Play(s, c) /\ PlayLogged(s)

SpecLong == Init /\ [][NextLong]_vars

\* The requests of Spec, and play requests with a payload that cannot be read
NextBad ==
    \/ Next
    \/ \E s \in Sessions, raw \in BadClicks : PlayMalformed(s, raw) /\ PlayLogged(s)

SpecBad == Init /\ [][NextBad]_vars

\* Start requests of different sessions interleave: the two halves of
\* get_context_data are steps of their own.  The requests of one session are
\* handled one after the other.
NextRace ==
    \/ \E s \in Sessions, p \in USER_EMAILS :
          Len(games) + Cardinality({t \in Sessions : inflight[t] # "none"}) < RaceGames
          /\ StartStop(s, p)
    \/ \E s \in Sessions, l \in Layouts : StartCreate(s, l)
    \/ \E s \in Sessions, c \in FirstCells :
          inflight[s] = "none" /\ ~IsSecondClick(s) /\ Play(s, c) /\ PlayLogged(s)
    \/ \E s \in Sessions, c \in SecondCells :
          /\ inflight[s] = "none" /\ IsSecondClick(s)
          /\ Cardinality(DOMAIN turns) < RaceTurns
          /\ Play(s, c) /\ PlayLogged(s)

SpecRace == Init /\ [][NextRace]_vars

---------------------------------------------------------------------------
(* Properties *)

\* the step is a play request of session s (in the specifications whose every
\* step answers a request)
PlayedBy(s) == response'.view = "play" /\ response'.session = s

\* the step is a click of session s handled against the game of its session
ClickedBy(s) == PlayedBy(s) /\ response'.status = 200

\* the games of a player that are active and unfinished
ActiveGames(player) ==
    {g \in DOMAIN games : games[g].player = player /\ games[g].active /\ ~games[g].finished}

\* the cells of a playfield that hold a card id
CellsOf(game, card) == {c \in Cells : get_card_id(game, c) = card}

CardsOf(game) == {get_card_id(game, c) : c \in Cells}

\* the cells of the two clicks of a Turn row
TurnCells(row) == {<<row.meta[i].row, row.meta[i].column>> : i \in 1 .. 2}

\* C1: a click on a game with no pending click writes no Turn row and sets
\* the pending click; a click on a game with a pending click adds exactly one
\* Turn row, owned by that game, clears the pending click and advances the
\* session's turn counter by one.
C1_ClickWritesTurnOnSecond ==
    [][\A s \in Sessions :
          ClickedBy(s) =>
             LET gid == session[s]["game"]
             IN IF ~games[gid].open_turn
                THEN /\ turns' = turns
                     /\ games'[gid].open_turn
                     /\ games'[gid].hold_card \in Cells
                ELSE /\ Cardinality(DOMAIN turns') = Cardinality(DOMAIN turns) + 1
                     /\ \A pk \in DOMAIN turns : pk \in DOMAIN turns' /\ turns'[pk] = turns[pk]
                     /\ \A pk \in (DOMAIN turns') \ (DOMAIN turns) : turns'[pk].game = gid
                     /\ ~games'[gid].open_turn
                     /\ session'[s]["turn"] = TurnPk(session[s], gid) + 1]_vars

\* C2: no Turn row is ever overwritten: a row, once written, keeps its game,
\* its clicks and its match flag, so the pk of every new row is a fresh one.
C2_TurnsAreNeverOverwritten ==
    [][\A pk \in DOMAIN turns : pk \in DOMAIN turns' /\ turns'[pk] = turns[pk]]_vars

\* C3: after every resolved round the game is finished exactly when its
\* matched Turn rows are as many as the pairs of its playfield, and a game of
\* the 2x3 grid becomes finished on the request of its 3rd matched round, no
\* earlier and no later.
C3_FinishedOnThirdMatch ==
    [][\A s \in Sessions :
          (ClickedBy(s) /\ games[session[s]["game"]].open_turn) =>
             LET gid == session[s]["game"]
             IN /\ games'[gid].finished <=>
                      2 * Cardinality(game_matches(turns', gid)) = ROWS * COLS
                /\ games'[gid].finished <=> matched_rounds'[gid] = 3]_vars

\* C4: a finished game has every card id of its playfield matched by one
\* of its Turn rows whose clicks are the two cells of that card.
C4_FinishedMeansAllPairsMatched ==
    \A g \in DOMAIN games :
       games[g].finished =>
          \A card \in CardsOf(games[g]) :
             \E pk \in game_matches(turns, g) :
                TurnCells(turns[pk]) = CellsOf(games[g], card)

\* C5: every player has at most one game that is active and unfinished.
C5_OneActiveGamePerPlayer ==
    \A p \in USER_EMAILS : Cardinality(ActiveGames(p)) <= 1

\* C5 witness: a start for a player stopped that player's earlier game
C5_Witness ==
    \E g, h \in DOMAIN games :
       /\ g < h
       /\ games[g].player = games[h].player
       /\ ~games[g].active /\ ~games[g].finished
       /\ games[h].active /\ ~games[h].finished

\* C6: a play request of a session without a "game" key is answered 500
\* with {success: false}; the request that completes a game leaves its
\* session without the key, so this is the answer to every play request
\* after it until the session starts a game.
C6_NoGameKeyIs500 ==
    [][\A s \in Sessions :
          /\ (PlayedBy(s) /\ ~Has(session[s], "game")) =>
                /\ response'.status = 500
                /\ response'.body = [success |-> FALSE]
          /\ (PlayedBy(s) /\ Has(response'.body, "completed")) =>
                ~Has(session'[s], "game")]_vars

\* C6 witness: a play request was answered 500 in a session that has
\* completed a game
C6_Witness ==
    /\ response.view = "play"
    /\ response.status = 500
    /\ response.body = [success |-> FALSE]
    /\ Has(session[response.session], "turn")
    /\ ~Has(session[response.session], "game")
    /\ \E g \in DOMAIN games : games[g].finished

\* C7: a play request of a session bound to a game id that is not a game
\* of the session's player, active and unfinished, is answered 404 with
\* {success: false, msg}, and reads or writes no click: tables and sessions
\* stay as they are.
C7_StaleGameIs404 ==
    [][\A s \in Sessions :
          (/\ PlayedBy(s)
           /\ Has(session[s], "game")
           /\ ~(/\ session[s]["game"] \in DOMAIN games
                /\ games[session[s]["game"]].player = session[s]["player"]
                /\ games[session[s]["game"]].active
                /\ ~games[session[s]["game"]].finished)) =>
             /\ response'.status = 404
             /\ response'.body.success = FALSE
             /\ Has(response'.body, "msg")
             /\ UNCHANGED <<games, turns, session>>]_vars

\* C7 witness: 404 for a session whose game was stopped by a later start
C7_Witness ==
    /\ response.view = "play"
    /\ response.status = 404
    /\ Has(session[response.session], "game")
    /\ ~games[session[response.session]["game"]].active
    /\ games[session[response.session]["game"]].open_turn

\* C8: the score of a game is written at most once, by the request that
\* marks the game finished; the score of a finished game never changes.
C8_ScoreWrittenOnceAtCompletion ==
    [][\A g \in DOMAIN games :
          /\ (games'[g].score # games[g].score \/ end_game_calls'[g] # end_game_calls[g]) =>
                /\ ~games[g].finished /\ games'[g].finished
                /\ end_game_calls[g] = 0 /\ end_game_calls'[g] = 1
          /\ (~games[g].finished /\ games'[g].finished) => end_game_calls'[g] = 1]_vars

\* C8 witness: a finished game with its score, and a later request
C8_Witness ==
    /\ \E g \in DOMAIN games :
          games[g].finished /\ games[g].score > 0 /\ end_game_calls[g] = 1
    /\ ~Has(response.body, "completed")

\* C9: finished is absorbing: a finished game stays finished and inactive,
\* has no pending click and gains no Turn row.
C9_FinishedIsAbsorbing ==
    [][\A g \in DOMAIN games :
          (games'[g].finished => ~games'[g].active /\ ~games'[g].open_turn)
          /\ (games[g].finished =>
                /\ games'[g].finished
                /\ game_turns(turns', g) \subseteq game_turns(turns, g))]_vars

\* C9 witness: the player of a finished game has started again
C9_Witness ==
    \E g, h \in DOMAIN games :
       g < h /\ games[g].finished /\ games[h].player = games[g].player

\* C10: the request that completes a game removes "game" from its session,
\* leaves the game finished and inactive, runs the suspicious-game detection
\* once for it and answers completed=true with the game's score; the answer
\* to a second click that does not complete the game has neither key.
C10_CompletionResponse ==
    [][\A s \in Sessions :
          (ClickedBy(s) /\ games[session[s]["game"]].open_turn) =>
             LET gid == session[s]["game"]
             IN IF 2 * Cardinality(game_matches(turns', gid)) = ROWS * COLS
                THEN /\ ~Has(session'[s], "game")
                     /\ games'[gid].finished /\ ~games'[gid].active
                     /\ suspect_calls[gid] = 0 /\ suspect_calls'[gid] = 1
                     /\ Has(response'.body, "completed") /\ response'.body.completed = TRUE
                     /\ Has(response'.body, "score") /\ response'.body.score = games'[gid].score
                ELSE /\ ~Has(response'.body, "completed")
                     /\ ~Has(response'.body, "score")
                     /\ Has(session'[s], "game")
                     /\ ~games'[gid].finished
                     /\ suspect_calls' = suspect_calls]_vars

\* C10 witness: the answer to a completing click
C10_Witness ==
    /\ response.view = "play"
    /\ Has(response.body, "completed")
    /\ response.body.score > 0
    /\ \E g \in DOMAIN games : games[g].finished /\ suspect_calls[g] = 1

\* the card id on cell <<row, column>> of a playfield
CardAt(playfield, row, column) == playfield[row + 1][column + 1]

\* the best positive score among a player's games, 0 without one
BestScore(player) ==
    LET S == {games[g].score : g \in {h \in DOMAIN games :
                                        games[h].player = player /\ games[h].score > 0}}
    IN IF S = {} THEN 0 ELSE CHOOSE m \in S : \A x \in S : x <= m

\* C11: the answer to a first click is {success: true, click: [the clicked
\* row and column with the card id of that cell]} and has no match field; the
\* answer to a second click has a match field equal to the is_match of the
\* Turn row the request saved, and it is false when the card ids at the
\* pending and the new coordinates differ.
C11_ClickResponses ==
    [][\A s \in Sessions :
          ClickedBy(s) =>
             LET gid == session[s]["game"]
                 game == games[gid]
                 body == response'.body
             IN IF ~game.open_turn
                THEN /\ DOMAIN body = {"success", "click"}
                     /\ body.success = TRUE
                     /\ Len(body.click) = 1
                     /\ <<body.click[1].row, body.click[1].column>> = games'[gid].hold_card
                     /\ body.click[1].card =
                           CardAt(game.playfield, body.click[1].row, body.click[1].column)
                ELSE /\ Has(body, "match")
                     /\ turns'[session'[s]["turn"] - 1].game = gid
                     /\ body.match = turns'[session'[s]["turn"] - 1].is_match
                     /\ (CardAt(game.playfield, game.hold_card[1], game.hold_card[2])
                            # CardAt(game.playfield, body.click[2].row, body.click[2].column))
                           => body.match = FALSE]_vars

\* C11 witness: a second click on a cell of another card was answered
\* match: false and its Turn row is saved
C11_Witness ==
    /\ response.view = "play"
    /\ Has(response.body, "match")
    /\ response.body.match = FALSE
    /\ response.body.click[1].card # response.body.click[2].card
    /\ \E pk \in DOMAIN turns : ~turns[pk].is_match /\ turns[pk].meta = response.body.click

\* C12: a start request succeeds and its game configuration has the best
\* positive score among the player's games as best_score, 0 without one.
C12_StartReturnsBestScore ==
    response.view = "start" =>
       /\ response.status = 200
       /\ response.body.game_data.best_score = BestScore(response.body.player)

\* C13: the accepted clicks of a game alternate: the k-th is handled as a
\* first click (sets the pending click, saves no Turn) for odd k and as a
\* second click (saves a Turn of the game, clears the pending click) for
\* even k; after n accepted clicks floor(n/2) rounds are resolved and a click
\* is pending exactly when n is odd.
C13_ClicksAlternate ==
    [][/\ \A s \in Sessions :
             ClickedBy(s) =>
                LET gid == session[s]["game"]
                    k == click_log[gid].accepted + 1
                IN /\ click_log'[gid].accepted = k
                   /\ IF k % 2 = 1
                      THEN /\ ~games[gid].open_turn /\ games'[gid].open_turn
                           /\ turns' = turns
                           /\ click_log'[gid].resolved = click_log[gid].resolved
                      ELSE /\ games[gid].open_turn /\ ~games'[gid].open_turn
                           /\ turns'[session'[s]["turn"] - 1].game = gid
                           /\ click_log'[gid].resolved = click_log[gid].resolved + 1
       /\ \A g \in DOMAIN games' :
             /\ click_log'[g].resolved = click_log'[g].accepted \div 2
             /\ games'[g].open_turn <=> click_log'[g].accepted % 2 = 1]_vars

\* C13 witness: a game after its third accepted click
C13_Witness ==
    \E g \in DOMAIN games :
       /\ click_log[g].accepted = 3 /\ click_log[g].resolved = 1
       /\ games[g].open_turn
       /\ Cardinality(game_turns(turns, g)) = 1

\* C14: after a start request the "game" key of its session is the new
\* game, which is active, unfinished and owned by the session's player, the
\* session has no "click" left, and no earlier game of that player is active
\* (a session still bound to one finds no game).
C14_StartBindsNewGame ==
    response.view = "start" =>
       LET s == response.session
           new == Len(games)
       IN /\ Has(session[s], "game") /\ session[s]["game"] = new
          /\ games[new].active /\ ~games[new].finished
          /\ games[new].player = session[s]["player"]
          /\ ~Has(session[s], "click")
          /\ \A g \in 1 .. new - 1 : games[g].player = games[new].player => ~games[g].active
          /\ \A t \in Sessions \ {s} :
                (Has(session[t], "game") /\ games[session[t]["game"]].player = games[new].player)
                   => ~GameFound(games, session[t])

\* C15: the Turn rows of a game have the pks game_id*10 + 1, game_id*10 + 2,
\* ... in the order they are saved, whatever the session played before.
C15_TurnIdsFollowGameId ==
    \A g \in DOMAIN games :
       game_turns(turns, g) =
          (g * TurnPkFactor + 1) .. (g * TurnPkFactor + Cardinality(game_turns(turns, g)))

\* C16: also when start requests of different sessions interleave, no
\* player has two games that are active and unfinished.
C16_OneActiveGameWhenStartsInterleave ==
    \A g, h \in DOMAIN games :
       (g # h /\ games[g].player = games[h].player)
          => ~(/\ games[g].active /\ ~games[g].finished
               /\ games[h].active /\ ~games[h].finished)

\* C17: a play request answered 500 or 404 changes no Game row, no Turn
\* row and no session key.
C17_RejectedPlayWritesNothing ==
    [][\A s \in Sessions :
          (PlayedBy(s) /\ response'.status \in {500, 404}) =>
             /\ games' = games
             /\ turns' = turns
             /\ session' = session]_vars

\* C17 witness: a play request was rejected while Game rows, Turn rows and
\* a session turn counter exist
C17_Witness ==
    /\ response.view = "play"
    /\ response.status \in {500, 404}
    /\ Has(session[response.session], "turn")
    /\ Has(session[response.session], "player")
    /\ DOMAIN turns # {}
    /\ \E g \in DOMAIN games : games[g].open_turn

\* C18: a play request with a missing or unparsable click, sent to a session
\* whose game is found, fails before any write in either phase: the pending
\* click of the game, the Turn rows and the session are as before, so the
\* next click meets the phase the malformed one met.
C18_MalformedClickWritesNothing ==
    [][\A s \in Sessions :
          (/\ PlayedBy(s)
           /\ response'.status = 500
           /\ HasGame(session[s])) =>
             LET gid == session[s]["game"]
             IN /\ games'[gid].open_turn = games[gid].open_turn
                /\ games'[gid].hold_card = games[gid].hold_card
                /\ games' = games
                /\ turns' = turns
                /\ session' = session
                /\ IsSecondClick(s)' = IsSecondClick(s)]_vars

\* C18 witness: a malformed click was rejected in the second-click phase of
\* a game that already has a Turn
C18_Witness ==
    /\ response.view = "play"
    /\ response.status = 500
    /\ HasGame(session[response.session])
    /\ GameFound(games, session[response.session])
    /\ games[session[response.session]["game"]].open_turn
    /\ game_turns(turns, session[response.session]["game"]) # {}

\* C19: a session with a "game" key has a "player" key, and the game the
\* key names exists and is owned by that player.
C19_SessionGameOwnedByPlayer ==
    \A s \in Sessions :
       Has(session[s], "game") =>
          /\ Has(session[s], "player")
          /\ session[s]["game"] \in DOMAIN games
          /\ games[session[s]["game"]].player = session[s]["player"]

\* C19 witness: a click was accepted in a session that started its game
\* after an earlier game of another player
C19_Witness ==
    /\ response.view = "play"
    /\ response.status = 200
    /\ Has(session[response.session], "game")
    /\ session[response.session]["game"] > 1
    /\ games[1].player # session[response.session]["player"]

===========================================================================
